---- MODULE Spec2Model ----
(***************************************************************************)
(* pngme: the chunk codec (src/src/chunk.rs), the chunk type code          *)
(* (src/src/chunk_type.rs) and the command handlers (src/src/cli.rs).      *)
(*                                                                         *)
(* A u32 is the record [hi, lo] of its two 16-bit halves, a usize the same *)
(* record with a wider hi: TLC's integers end at 2^31 - 1, and the codec's *)
(* length arithmetic is about 2^31 and 2^32.  A Rust string is the         *)
(* sequence of its chars (code points); a byte string is a sequence of     *)
(* numbers in 0..255.                                                      *)
(***************************************************************************)
EXTENDS Integers, Sequences, FiniteSets, TLC

Byte == 0..255

\* ---------------------------------------------------------------- integers

\* The number hi * 2^16 + lo.
W(hi, lo) == [hi |-> hi, lo |-> lo]

\* A small natural as a usize / u32.
OfNat(n) == W(n \div 65536, n % 65536)

WLt(a, b) == a.hi < b.hi \/ (a.hi = b.hi /\ a.lo < b.lo)

WLe(a, b) == a = b \/ WLt(a, b)

\* a + b of two usize values (no overflow within the model's sizes).
WAdd(a, b) ==
    LET s == a.lo + b.lo
    IN  W(a.hi + b.hi + s \div 65536, s % 65536)

\* a - b for a >= b.
WSub(a, b) ==
    IF a.lo >= b.lo THEN W(a.hi - b.hi, a.lo - b.lo)
    ELSE W(a.hi - b.hi - 1, a.lo + 65536 - b.lo)

\* `x as u32`: a usize truncated to its low 32 bits.
AsU32(x) == W(x.hi % 65536, x.lo)

\* u32 `a - b`: the difference, and whether it overflowed (a < b); the wrapped
\* value is a - b + 2^32.
U32Sub(a, b) ==
    IF WLe(b, a) THEN [v |-> WSub(a, b), overflow |-> FALSE]
    ELSE [v |-> WSub(W(a.hi + 65536, a.lo), b), overflow |-> TRUE]

\* 2_u32.pow(31)
Pow2_31 == W(32768, 0)

\* u32::MAX
U32_MAX == W(65535, 65535)

\* ^ on 4-bit values, bit by bit.
RECURSIVE XorBits(_, _, _)
XorBits(a, b, n) ==
    IF n = 0 THEN 0
    ELSE ((a + b) % 2) + 2 * XorBits(a \div 2, b \div 2, n - 1)

XorNibble == [a \in 0..15 |-> [b \in 0..15 |-> XorBits(a, b, 4)]]

Xor8(a, b) ==
    16 * XorNibble[a \div 16][b \div 16] + XorNibble[a % 16][b % 16]

Xor16(a, b) ==
    256 * Xor8(a \div 256, b \div 256) + Xor8(a % 256, b % 256)

\* u32 `a ^ b`
Xor32(a, b) == W(Xor16(a.hi, b.hi), Xor16(a.lo, b.lo))

\* u32 `c >> 1`
Shr1(c) == W(c.hi \div 2, (c.hi % 2) * 32768 + c.lo \div 2)

\* u32 `c >> 8`
Shr8(c) == W(c.hi \div 256, (c.hi % 256) * 256 + c.lo \div 256)

\* u32 `!c`
Not32(c) == W(65535 - c.hi, 65535 - c.lo)

\* u32::to_be_bytes
to_be_bytes(x) ==
    <<x.hi \div 256, x.hi % 256, x.lo \div 256, x.lo % 256>>

\* u32::from_be_bytes
from_be_bytes(b) == W(b[1] * 256 + b[2], b[3] * 256 + b[4])

\* ------------------------------------------------------------ std results

Ok(v) == [ok |-> TRUE, v |-> v, err |-> ""]

Err(msg) == [ok |-> FALSE, v |-> <<>>, err |-> msg]

\* ------------------------------------------------------------ std strings

\* The UTF-8 encoding of one char (code points below 2^16).
utf8(c) ==
    IF c < 128 THEN <<c>>
    ELSE IF c < 2048 THEN <<192 + (c \div 64), 128 + (c % 64)>>
    ELSE <<224 + (c \div 4096), 128 + ((c \div 64) % 64), 128 + (c % 64)>>

\* str::as_bytes
RECURSIVE as_bytes(_)
as_bytes(s) == IF s = <<>> THEN <<>> ELSE utf8(Head(s)) \o as_bytes(Tail(s))

IsCont(b) == b >= 128 /\ b <= 191

\* std::str::from_utf8, for encodings of up to three bytes: Ok(the chars) or
\* an error.
RECURSIVE from_utf8(_)
from_utf8(b) ==
    IF b = <<>> THEN Ok(<<>>)
    ELSE LET b1 == b[1]
             n  == IF b1 < 128 THEN 1
                   ELSE IF b1 >= 194 /\ b1 <= 223 THEN 2
                   ELSE IF b1 >= 224 /\ b1 <= 239 THEN 3
                   ELSE 0
         IN  IF n = 0 \/ Len(b) < n \/ \E i \in 2..n : ~IsCont(b[i])
             THEN Err("invalid utf-8 sequence")
             ELSE LET c == IF n = 1 THEN b1
                           ELSE IF n = 2 THEN (b1 - 192) * 64 + (b[2] - 128)
                           ELSE (b1 - 224) * 4096 + (b[2] - 128) * 64 + (b[3] - 128)
                      rest == from_utf8(SubSeq(b, n + 1, Len(b)))
                  IN  IF (n = 3 /\ c < 2048) \/ ~rest.ok
                      THEN Err("invalid utf-8 sequence")
                      ELSE Ok(<<c>> \o rest.v)

\* u8::is_ascii_uppercase
is_ascii_uppercase(b) == b >= 65 /\ b <= 90

\* u8::is_ascii_lowercase
is_ascii_lowercase(b) == b >= 97 /\ b <= 122

\* is_ascii_alphanumeric in the place of is_ascii_alphabetic.
is_ascii_alphanumeric(b) ==
    is_ascii_uppercase(b) \/ is_ascii_lowercase(b) \/ (b >= 48 /\ b <= 57)

\* u8::is_ascii_alphabetic
is_ascii_alphabetic(b) == is_ascii_uppercase(b) \/ is_ascii_lowercase(b)

\* --------------------------------------------------------------- ChunkType
\* A ChunkType(u8, u8, u8, u8) is the tuple of its four bytes.

\* impl TryFrom<[u8; 4]> for ChunkType
ChunkType_try_from(value) ==
    IF ~(\A i \in 1..4 : is_ascii_alphabetic(value[i]))
    THEN Err("Contains non-ASCII chars")
    ELSE Ok(<<value[1], value[2], value[3], value[4]>>)

\* impl FromStr for ChunkType
ChunkType_from_str(s) ==
    IF Len(as_bytes(s)) # 4
    THEN Err("Invalid string length")
    ELSE ChunkType_try_from(SubSeq(as_bytes(s), 1, 4))

\* ChunkType::bytes
ChunkType_bytes(t) == <<t[1], t[2], t[3], t[4]>>

\* impl Display for ChunkType (to_string)
ChunkType_to_string(t) == from_utf8(ChunkType_bytes(t))

is_critical(t) == is_ascii_uppercase(t[1])

is_public(t) == is_ascii_uppercase(t[2])

is_reserved_bit_valid(t) == is_ascii_uppercase(t[3])

\* is_safe_to_copy reading the case of byte 3 as the other three do.
is_safe_to_copy_uppercase(t) == is_ascii_uppercase(t[4])

is_safe_to_copy(t) == is_ascii_lowercase(t[4])

is_valid(t) == is_reserved_bit_valid(t)

\* ------------------------------------------------------------------- crc32

\* 0xedb88320
Poly == W(60856, 33568)

RECURSIVE TableFold(_, _)
TableFold(c, k) ==
    IF k = 0 THEN c
    ELSE TableFold(IF c.lo % 2 = 1 THEN Xor32(Shr1(c), Poly) ELSE Shr1(c), k - 1)

\* CRC32_TABLE, as get_or_init fills it
CRC32_TABLE == [i \in 0..255 |-> TableFold(OfNat(i), 8)]

\* The fold of lines 114-116 over octets[i..], from the register c:
\* |c, octet| c >> 8 ^ table[((c ^ octet as u32) & 0xff) as usize].
\* The index is masked to eight bits, so the table lookup is always in bounds.
RECURSIVE CrcFold(_, _, _)
CrcFold(c, octets, i) ==
    IF i > Len(octets) THEN c
    ELSE LET index == Xor8(c.lo % 256, octets[i])
         IN  IF index \in DOMAIN CRC32_TABLE
             THEN CrcFold(Xor32(Shr8(c), CRC32_TABLE[index]), octets, i + 1)
             ELSE c

\* crc32 with the data never chained after the type.
crc32_type_only(type, data) == Not32(CrcFold(U32_MAX, type, 1))

\* crc32 without the final `!`.
crc32_no_final_not(type, data) == CrcFold(U32_MAX, type \o data, 1)

crc32(type, data) == Not32(CrcFold(U32_MAX, type \o data, 1))


\* ------------------------------------------------------------------- Chunk
\* A Chunk is the record [length, type, data, crc] of chunk.rs lines 8-13.

NoChunk == [length |-> W(0, 0), type |-> <<>>, data |-> <<>>, crc |-> W(0, 0)]

\* What a call of try_from comes to: Ok(chunk), Err(message) or a panic;
\* wrapped says that an integer computation of the call overflowed and
\* wrapped around (a build without overflow checks).
Returned(c) == [tag |-> "Ok", chunk |-> c, err |-> "", wrapped |-> FALSE]

Failed(msg, wrapped) ==
    [tag |-> "Err", chunk |-> NoChunk, err |-> msg, wrapped |-> wrapped]

Panicked(msg) == [tag |-> "Panic", chunk |-> NoChunk, err |-> msg, wrapped |-> FALSE]

NotCalled == [tag |-> "None", chunk |-> NoChunk, err |-> "", wrapped |-> FALSE]

\* Chunk::new
Chunk_new(type, data) ==
    [length |-> AsU32(OfNat(Len(data))),
     type   |-> type,
     data   |-> data,
     crc    |-> crc32(ChunkType_bytes(type), data)]

\* Chunk::bytes
Chunk_bytes(c) ==
    to_be_bytes(c.length) \o ChunkType_bytes(c.type) \o c.data \o to_be_bytes(c.crc)

\* Chunk::data_as_string
Chunk_data_as_string(c) == from_utf8(c.data)

\* try_from, line 20: `length > 2_u32.pow(31) || length != value.len() as u32 - 12`
\* for a buffer of len bytes (a usize).  The subtraction overflows for
\* (len as u32) < 12: a build with overflow checks panics there, a build
\* without them goes on with the wrapped difference.
LengthCheck(length, len, checks) ==
    IF WLt(Pow2_31, length) THEN [tag |-> "Err", wrapped |-> FALSE]
    ELSE LET d == U32Sub(AsU32(len), OfNat(12))
         IN  IF d.overflow /\ checks THEN [tag |-> "Panic", wrapped |-> FALSE]
             ELSE IF length # d.v THEN [tag |-> "Err", wrapped |-> d.overflow]
             ELSE [tag |-> "Pass", wrapped |-> d.overflow]

\* impl TryFrom<&[u8]> for Chunk, of a buffer given byte by byte.
Chunk_try_from(value, checks) ==
    LET n == Len(value)
    IN  IF n < 4 THEN Failed("Invalid chunk length", FALSE)
        ELSE
        LET length == from_be_bytes(SubSeq(value, 1, 4))
            lc     == LengthCheck(length, OfNat(n), checks)
        IN  IF lc.tag = "Panic" THEN Panicked("attempt to subtract with overflow")
            ELSE IF lc.tag = "Err" THEN Failed("Invalid chunk length", lc.wrapped)
            ELSE IF n < 8 THEN Failed("Invalid chunk length: chunk type", lc.wrapped)
            ELSE
            LET type_bytes == SubSeq(value, 5, 8)
                type       == ChunkType_try_from(type_bytes)
                crc_offset == n - 4
            IN  IF ~type.ok THEN Failed(type.err, lc.wrapped)
                ELSE IF crc_offset < 8
                THEN Failed("Invalid chunk length: chunk data", lc.wrapped)
                ELSE
                LET data           == SubSeq(value, 9, crc_offset)
                    crc            == from_be_bytes(SubSeq(value, crc_offset + 1, n))
                    calculated_crc == crc32(type_bytes, data)
                IN  IF crc # calculated_crc
                    THEN Failed("Invalid chunk CRC", lc.wrapped)
                    ELSE Returned([length |-> length, type |-> type.v,
                                   data |-> data, crc |-> crc])

\* -------------------------------------------------- Chunk, payloads by size
\* A payload of 2^31 or 2^32 bytes cannot be written out byte by byte.  The
\* same three functions over buffers known by their size: a buffer is
\* [n, head, crc_ok], its length n (a usize), its first min(n, 8) bytes, and
\* whether its last four bytes are the big-endian crc32 of the bytes between
\* offset 4 and offset n - 4; a chunk is [length, type, data_len], its crc
\* being the crc32 of its type and data.

NoSized == [length |-> W(0, 0), type |-> <<>>, data_len |-> W(0, 0)]

\* Chunk::new, of a payload of data_len bytes
Chunk_new_sized(type, data_len) ==
    [length |-> AsU32(data_len), type |-> type, data_len |-> data_len]

\* Chunk::bytes: 4 + 4 + data.len() + 4 bytes
Chunk_bytes_sized(c) ==
    [n      |-> WAdd(c.data_len, OfNat(12)),
     head   |-> to_be_bytes(c.length) \o ChunkType_bytes(c.type),
     crc_ok |-> TRUE]

\* impl TryFrom<&[u8]> for Chunk
Chunk_try_from_sized(value, checks) ==
    IF WLt(value.n, OfNat(4))
    THEN [tag |-> "Err", chunk |-> NoSized, err |-> "Invalid chunk length",
          wrapped |-> FALSE]
    ELSE
    LET length == from_be_bytes(SubSeq(value.head, 1, 4))
        lc     == LengthCheck(length, value.n, checks)
        fail(msg) == [tag |-> "Err", chunk |-> NoSized, err |-> msg,
                      wrapped |-> lc.wrapped]
    IN  IF lc.tag = "Panic"
        THEN [tag |-> "Panic", chunk |-> NoSized,
              err |-> "attempt to subtract with overflow", wrapped |-> FALSE]
        ELSE IF lc.tag = "Err" THEN fail("Invalid chunk length")
        ELSE IF WLt(value.n, OfNat(8)) THEN fail("Invalid chunk length: chunk type")
        ELSE
        LET type       == ChunkType_try_from(SubSeq(value.head, 5, 8))
            crc_offset == WSub(value.n, OfNat(4))
        IN  IF ~type.ok THEN fail(type.err)
            ELSE IF WLt(crc_offset, OfNat(8))
            THEN fail("Invalid chunk length: chunk data")
            ELSE IF ~value.crc_ok THEN fail("Invalid chunk CRC")
            ELSE [tag |-> "Ok",
                  chunk |-> [length |-> length, type |-> type.v,
                             data_len |-> WSub(crc_offset, OfNat(8))],
                  err |-> "", wrapped |-> lc.wrapped]

\* --------------------------------------------------------------------- Png
\* png.rs is not among the sources: the container is modelled from its
\* specification (spec.md, sections 4.3 and 6).  A Png is the sequence of its
\* chunks.

\* The fixed 8-byte signature.
SIGNATURE == <<137, 80, 78, 71, 13, 10, 26, 10>>

\* The chunks of the bytes b, each consuming 12 + length bytes, until b is
\* exhausted; the first chunk that fails fails the whole.
RECURSIVE ParseChunks(_, _)
ParseChunks(b, checks) ==
    IF b = <<>> THEN Ok(<<>>)
    ELSE IF Len(b) < 4 THEN Err("Truncated")
    ELSE LET length == from_be_bytes(SubSeq(b, 1, 4))
             Then(c, rest) == IF rest.ok THEN Ok(<<c.chunk>> \o rest.v) ELSE rest
             Go(c) == IF c.tag # "Ok" THEN Err(c.err)
                      ELSE Then(c, ParseChunks(SubSeq(b, 13 + length.lo, Len(b)), checks))
         IN  IF WLt(OfNat(Len(b)), WAdd(length, OfNat(12))) THEN Err("Truncated")
             ELSE Go(Chunk_try_from(SubSeq(b, 1, 12 + length.lo), checks))

\* Png::try_from(bytes)
Png_try_from(bytes, checks) ==
    IF Len(bytes) < 8 \/ SubSeq(bytes, 1, 8) # SIGNATURE
    THEN Err("InvalidSignature")
    ELSE ParseChunks(SubSeq(bytes, 9, Len(bytes)), checks)

\* Png::append_chunk
Png_append_chunk(png, c) == Append(png, c)

\* The index of the first chunk of png from index i on whose type code's text
\* is type_text, 0 when there is none.
RECURSIVE FirstOfType(_, _, _)
FirstOfType(png, type_text, i) ==
    IF i > Len(png) THEN 0
    ELSE IF ChunkType_to_string(png[i].type) = Ok(type_text) THEN i
    ELSE FirstOfType(png, type_text, i + 1)

\* Png::remove_chunk(type_text)
Png_remove_chunk(png, type_text) ==
    LET i == FirstOfType(png, type_text, 1)
    IN  IF i = 0 THEN Err("NotFound")
        ELSE Ok(SubSeq(png, 1, i - 1) \o SubSeq(png, i + 1, Len(png)))

\* Png::chunk_by_type(type_text): Some(chunk) as Ok(chunk), None as an Err
Png_chunk_by_type(png, type_text) ==
    LET i == FirstOfType(png, type_text, 1)
    IN  IF i = 0 THEN Err("None") ELSE Ok(png[i])

\* Png::bytes
RECURSIVE ChunksBytes(_)
ChunksBytes(png) ==
    IF png = <<>> THEN <<>> ELSE Chunk_bytes(Head(png)) \o ChunksBytes(Tail(png))

Png_bytes(png) == SIGNATURE \o ChunksBytes(png)

\* ------------------------------------------------------------------- state

VARIABLES
    overflow_checks,  \* the build: TRUE with overflow checks (debug), FALSE without
    pc,               \* codec: "idle", "built", "serialized", "relabelled", "edited", "decoded"
    chunk,            \* codec: the Chunk built by Chunk::new
    value,            \* codec: the buffer handed to try_from
    orig,             \* codec: the buffer as Chunk::bytes produced it, before any edit
    edit,             \* codec: what changed value since: [kind, at, bit]
    res,              \* codec: what try_from came to, with the Chunk it returned
    spc,              \* sized codec: "idle", "built", "serialized", "crafted", "decoded"
    schunk,           \* sized codec: the chunk built by Chunk::new
    svalue,           \* sized codec: the buffer [n, head, crc_ok] handed to try_from
    sres,             \* sized codec: what try_from came to, with the chunk it returned
    input,            \* chunk type: the input, [kind, v]: four bytes or a string
    ctype,            \* chunk type: what try_from / from_str came to
    seen,             \* chunk type: what the methods of the ChunkType returned
    file,             \* cli: the bytes of the file at args[2]
    status,           \* cli: what the last command came to, Ok or Err(message)
    stdout,           \* cli: the line the last command printed, as Ok(chars)
    hist              \* cli: the last command and, when a successful encode, the one
                      \*      before it, each with the file it found

codecVars == <<pc, chunk, value, orig, edit, res>>

sizedVars == <<spc, schunk, svalue, sres>>

typeVars == <<input, ctype, seen>>

cliVars == <<file, status, stdout, hist>>

vars == <<overflow_checks, codecVars, sizedVars, typeVars, cliVars>>

\* ------------------------------------------------------------------ bounds

\* Longest payload written out byte by byte.
MaxData == 2

\* The bytes payloads are made of.
DataBytes == {0, 65, 255}

\* Type codes chunks are built with: "RuSt", "ruSt".
Types == {<<82, 117, 83, 116>>, <<114, 117, 83, 116>>}

Payloads == UNION {[1..n -> DataBytes] : n \in 0..MaxData}

\* Declared lengths written over a buffer's first four bytes:
\* 0, 1, 2^31 - 1, 2^31, 2^31 + 1, 2^32 - 1.
Lengths == {W(0, 0), W(0, 1), W(32767, 65535), W(32768, 0), W(32768, 1), W(65535, 65535)}

\* ----------------------------------------------------------- codec, bytes

NoEdit == [kind |-> "none", at |-> 0, bit |-> 0]

InitCodec ==
    /\ pc = "idle"
    /\ chunk = NoChunk
    /\ value = <<>>
    /\ orig = <<>>
    /\ edit = NoEdit
    /\ res = NotCalled

InitSized ==
    /\ spc = "idle"
    /\ schunk = NoSized
    /\ svalue = [n |-> W(0, 0), head |-> <<>>, crc_ok |-> FALSE]
    /\ sres = [tag |-> "None", chunk |-> NoSized, err |-> "", wrapped |-> FALSE]

NotParsed == Err("not called")

NotSeen == [bytes |-> <<>>, text |-> NotParsed, critical |-> FALSE, public |-> FALSE,
            reserved_bit_valid |-> FALSE, safe_to_copy |-> FALSE, valid |-> FALSE]

InitType ==
    /\ input = [kind |-> "none", v |-> <<>>]
    /\ ctype = NotParsed
    /\ seen = NotSeen

NoCommand == [op |-> "none", type |-> <<>>, ok |-> FALSE, before |-> <<>>]

InitCli ==
    /\ file = SIGNATURE
    /\ status = Ok(<<>>)
    /\ stdout = Err("nothing printed")
    /\ hist = <<NoCommand, NoCommand>>

Init ==
    /\ overflow_checks \in BOOLEAN
    /\ InitCodec
    /\ InitSized
    /\ InitType
    /\ InitCli

\* Chunk::new(type, data), of a valid type code and a payload.
New(t, d) ==
    /\ pc = "idle"
    /\ pc' = "built"
    /\ chunk' = Chunk_new(t, d)
    /\ value' = <<>>
    /\ orig' = <<>>
    /\ edit' = NoEdit
    /\ res' = NotCalled
    /\ UNCHANGED <<overflow_checks, sizedVars, typeVars, cliVars>>

\* chunk.bytes()
Bytes ==
    /\ pc = "built"
    /\ pc' = "serialized"
    /\ value' = Chunk_bytes(chunk)
    /\ orig' = Chunk_bytes(chunk)
    /\ UNCHANGED <<chunk, edit, res, overflow_checks, sizedVars, typeVars, cliVars>>

\* The bit 2^k of byte b flipped.
FlipBitOf(b, k) == Xor8(b, 2 ^ k)

\* The serialized chunk is damaged: one bit of byte i flips.
FlipBit(i, k) ==
    /\ pc = "serialized"
    /\ i \in 1..Len(value)
    /\ pc' = "edited"
    /\ value' = [value EXCEPT ![i] = FlipBitOf(value[i], k)]
    /\ edit' = [kind |-> "flip", at |-> i, bit |-> k]
    /\ UNCHANGED <<chunk, orig, res, overflow_checks, sizedVars, typeVars, cliVars>>

\* The serialized chunk's length field is overwritten.
SetLength(l) ==
    /\ pc = "serialized"
    /\ pc' = "relabelled"
    /\ value' = to_be_bytes(l) \o SubSeq(value, 5, Len(value))
    /\ edit' = [kind |-> "length", at |-> 1, bit |-> 0]
    /\ UNCHANGED <<chunk, orig, res, overflow_checks, sizedVars, typeVars, cliVars>>

\* The buffer is cut to its first n bytes.
Truncate(n) ==
    /\ pc \in {"serialized", "relabelled"}
    /\ n < Len(value)
    /\ pc' = "edited"
    /\ value' = SubSeq(value, 1, n)
    /\ edit' = [kind |-> "truncate", at |-> n, bit |-> 0]
    /\ UNCHANGED <<chunk, orig, res, overflow_checks, sizedVars, typeVars, cliVars>>

\* Chunk::try_from(value)
TryFrom ==
    /\ pc \in {"serialized", "relabelled", "edited"}
    /\ pc' = "decoded"
    /\ res' = Chunk_try_from(value, overflow_checks)
    /\ UNCHANGED <<chunk, value, orig, edit, overflow_checks, sizedVars, typeVars, cliVars>>

Next ==
    \/ \E t \in Types, d \in Payloads : New(t, d)
    \/ Bytes
    \/ \E i \in 1..(12 + MaxData), k \in 0..7 : FlipBit(i, k)
    \/ \E l \in Lengths : SetLength(l)
    \/ \E n \in 0..(12 + MaxData) : Truncate(n)
    \/ TryFrom

Spec == Init /\ [][Next]_vars

\* ----------------------------------------------------------- codec, sizes

\* How far around 0, 2^31 and 2^32 the sizes of the model reach.
Slack == 1

Near(base) ==
    {WAdd(base, OfNat(d)) : d \in 0..Slack} \cup {WSub(base, OfNat(d)) : d \in 1..Slack}

\* Payload sizes: around 0, around 2^31 and around 2^32.
Sizes == {OfNat(d) : d \in 0..Slack} \cup Near(Pow2_31) \cup Near(W(65536, 0))

\* Buffer lengths: 0 to 12 + Slack, and 12 more than each payload size.
BufLens == {OfNat(k) : k \in 0..(12 + Slack)} \cup {WAdd(z, OfNat(12)) : z \in Sizes}

\* Declared lengths: each payload size as a u32.
Declared == {AsU32(z) : z \in Sizes}

\* The type bytes of a buffer: the type codes, and "Ru1t".
HeadTypes == Types \cup {<<82, 117, 49, 116>>}

\* Chunk::new(type, data), of a valid type code and a payload of z bytes.
NewSized(t, z) ==
    /\ spc = "idle"
    /\ spc' = "built"
    /\ schunk' = Chunk_new_sized(t, z)
    /\ UNCHANGED <<svalue, sres, overflow_checks, codecVars, typeVars, cliVars>>

\* chunk.bytes()
BytesSized ==
    /\ spc = "built"
    /\ spc' = "serialized"
    /\ svalue' = Chunk_bytes_sized(schunk)
    /\ UNCHANGED <<schunk, sres, overflow_checks, codecVars, typeVars, cliVars>>

\* A buffer of n bytes from outside: it declares the length l, holds the type
\* bytes t (as far as it reaches), and its last four bytes hold the crc32 of
\* what precedes them from offset 4, or do not.
Craft(n, l, t, ok) ==
    /\ spc = "idle"
    /\ spc' = "crafted"
    /\ svalue' = [n      |-> n,
                  head   |-> SubSeq(to_be_bytes(l) \o t, 1,
                                    IF WLt(n, OfNat(8)) THEN n.lo ELSE 8),
                  crc_ok |-> ok /\ WLe(OfNat(12), n)]
    /\ UNCHANGED <<schunk, sres, overflow_checks, codecVars, typeVars, cliVars>>

\* Chunk::try_from(value)
TryFromSized ==
    /\ spc \in {"serialized", "crafted"}
    /\ spc' = "decoded"
    /\ sres' = Chunk_try_from_sized(svalue, overflow_checks)
    /\ UNCHANGED <<schunk, svalue, overflow_checks, codecVars, typeVars, cliVars>>

NextSized ==
    \/ \E t \in Types, z \in Sizes : NewSized(t, z)
    \/ BytesSized
    \/ \E n \in BufLens, l \in Declared, t \in HeadTypes, ok \in BOOLEAN : Craft(n, l, t, ok)
    \/ TryFromSized

SpecSized == Init /\ [][NextSized]_vars

\* -------------------------------------------------------------- chunk type

\* Longest string handed to from_str, in chars.
MaxText == 5

\* The bytes try_from is given: the letters' ends and their neighbours.
RawBytes == {64, 65, 90, 91, 96, 97, 122, 123}

\* The chars of the strings: 'R', 'u', '1', and U+00E9, two bytes in UTF-8.
Chars == {82, 117, 49, 233}

Inputs ==
    {[kind |-> "bytes", v |-> b] : b \in [1..4 -> RawBytes]}
    \cup {[kind |-> "str", v |-> t] : t \in UNION {[1..n -> Chars] : n \in 0..MaxText}}

InitInputs ==
    /\ overflow_checks \in BOOLEAN
    /\ InitCodec
    /\ InitSized
    /\ InitCli
    /\ input \in Inputs
    /\ ctype = NotParsed
    /\ seen = NotSeen

\* ChunkType::try_from(input)
TryFromBytes ==
    /\ input.kind = "bytes"
    /\ ctype = NotParsed
    /\ ctype' = ChunkType_try_from(input.v)
    /\ UNCHANGED <<input, seen, overflow_checks, codecVars, sizedVars, cliVars>>

\* ChunkType::from_str(input)
FromStr ==
    /\ input.kind = "str"
    /\ ctype = NotParsed
    /\ ctype' = ChunkType_from_str(input.v)
    /\ UNCHANGED <<input, seen, overflow_checks, codecVars, sizedVars, cliVars>>

\* The methods of the ChunkType that came out.
Inspect ==
    /\ ctype.ok
    /\ seen = NotSeen
    /\ seen' = [bytes              |-> ChunkType_bytes(ctype.v),
                text               |-> ChunkType_to_string(ctype.v),
                critical           |-> is_critical(ctype.v),
                public             |-> is_public(ctype.v),
                reserved_bit_valid |-> is_reserved_bit_valid(ctype.v),
                safe_to_copy       |-> is_safe_to_copy(ctype.v),
                valid              |-> is_valid(ctype.v)]
    /\ UNCHANGED <<input, ctype, overflow_checks, codecVars, sizedVars, cliVars>>

NextType ==
    \/ TryFromBytes
    \/ FromStr
    \/ Inspect

SpecType == InitInputs /\ [][NextType]_vars

\* --------------------------------------------------------------------- cli

\* Most chunks in the file.
MaxChunks == 3

\* args[3]: "RuSt", "ruSt", "Ru1t".
TypeTexts == {<<82, 117, 83, 116>>, <<114, 117, 83, 116>>, <<82, 117, 49, 116>>}

\* args[4]: "a", "b".
Messages == {<<97>>, <<98>>}

\* png_from_path(&args[2])
png_from_path == Png_try_from(file, overflow_checks)

Logged(op, type, ok) ==
    <<IF hist[2].op = "encode" /\ hist[2].ok THEN hist[2] ELSE NoCommand,
      [op |-> op, type |-> type, ok |-> ok, before |-> file]>>

\* remove, with the file never written back.
remove_no_write(type) ==
    LET Run(png) ==
            LET Write(removed) ==
                    /\ file' = file
                    /\ status' = IF removed.ok THEN Ok(<<>>) ELSE Err(removed.err)
                    /\ hist' = Logged("remove", type, removed.ok)
            IN  Write(IF png.ok THEN Png_remove_chunk(png.v, type) ELSE png)
    IN  /\ Run(png_from_path)
        /\ UNCHANGED <<stdout, overflow_checks, codecVars, sizedVars, typeVars>>

\* fn encode: `pngme encode <path> <type> <message>`
encode(type, message) ==
    LET Run(png, chunk_type) ==
            /\ png.ok => Len(png.v) < MaxChunks
            /\ file' = IF png.ok /\ chunk_type.ok
                       THEN Png_bytes(Png_append_chunk(png.v,
                                Chunk_new(chunk_type.v, as_bytes(message))))
                       ELSE file
            /\ status' = IF ~png.ok THEN Err(png.err)
                         ELSE IF ~chunk_type.ok THEN Err(chunk_type.err)
                         ELSE Ok(<<>>)
            /\ hist' = Logged("encode", type, png.ok /\ chunk_type.ok)
    IN  /\ Run(png_from_path, ChunkType_from_str(type))
        /\ UNCHANGED <<stdout, overflow_checks, codecVars, sizedVars, typeVars>>

\* fn decode: `pngme decode <path> <type>`
decode(type) ==
    LET Run(png) ==
            LET Show(found, text) ==
                    /\ status' = IF ~png.ok THEN Err(png.err)
                                 ELSE IF ~found.ok THEN Err("Invalid chunk type")
                                 ELSE IF ~text.ok THEN Err(text.err)
                                 ELSE Ok(<<>>)
                    /\ stdout' = IF png.ok /\ found.ok /\ text.ok THEN Ok(text.v) ELSE stdout
                    /\ hist' = Logged("decode", type, png.ok /\ found.ok /\ text.ok)
                Find(found) ==
                    Show(found, IF found.ok THEN Chunk_data_as_string(found.v) ELSE found)
            IN  Find(IF png.ok THEN Png_chunk_by_type(png.v, type) ELSE png)
    IN  /\ Run(png_from_path)
        /\ UNCHANGED <<file, overflow_checks, codecVars, sizedVars, typeVars>>

\* fn remove: `pngme remove <path> <type>`
remove(type) ==
    LET Run(png) ==
            LET Write(removed) ==
                    /\ file' = IF removed.ok THEN Png_bytes(removed.v) ELSE file
                    /\ status' = IF removed.ok THEN Ok(<<>>) ELSE Err(removed.err)
                    /\ hist' = Logged("remove", type, removed.ok)
            IN  Write(IF png.ok THEN Png_remove_chunk(png.v, type) ELSE png)
    IN  /\ Run(png_from_path)
        /\ UNCHANGED <<stdout, overflow_checks, codecVars, sizedVars, typeVars>>

NextCli ==
    \/ \E t \in TypeTexts, m \in Messages : encode(t, m)
    \/ \E t \in TypeTexts : decode(t)
    \/ \E t \in TypeTexts : remove(t)

\* The file at the start: a PNG without chunks, or not a PNG.
InitFiles ==
    /\ overflow_checks \in BOOLEAN
    /\ InitCodec
    /\ InitSized
    /\ InitType
    /\ file \in {SIGNATURE, <<0>> \o Tail(SIGNATURE)}
    /\ status = Ok(<<>>)
    /\ stdout = Err("nothing printed")
    /\ hist = <<NoCommand, NoCommand>>

SpecCli == InitFiles /\ [][NextCli]_vars

\* ------------------------------------------------------------------ claims

\* The errors of try_from that are about the buffer's length.
LengthErrors ==
    {"Invalid chunk length", "Invalid chunk length: chunk type",
     "Invalid chunk length: chunk data", "Invalid chunk length: chunk CRC"}

\* C2: a serialized chunk that try_from accepts, with one bit of its payload
\* or of its stored CRC flipped, is rejected with the CRC-mismatch error: no
\* chunk comes out of it.
C2_TamperDetected ==
    (/\ pc = "decoded"
     /\ edit.kind = "flip"
     /\ edit.at > 8
     /\ Chunk_try_from(orig, overflow_checks).tag = "Ok")
    => (res.tag = "Err" /\ res.err = "Invalid chunk CRC" /\ res.chunk = NoChunk)

\* C2's case: try_from has run on a buffer with a payload bit flipped.
C2_Witness ==
    /\ pc = "decoded"
    /\ edit.kind = "flip"
    /\ edit.at > 8
    /\ edit.at <= Len(value) - 4
    /\ res.err = "Invalid chunk CRC"

\* C3: try_from of a buffer shorter than 12 bytes, or shorter than 12 plus
\* its declared length, returns a length error: it does not panic and no
\* integer computation of it overflows.
C3_TruncationSafe ==
    (/\ pc = "decoded"
     /\ \/ Len(value) < 12
        \/ WLt(OfNat(Len(value)),
               WAdd(from_be_bytes(SubSeq(value, 1, 4)), OfNat(12))))
    => (res.tag = "Err" /\ res.err \in LengthErrors /\ ~res.wrapped)

\* The IEEE reflected CRC-32, bit by bit, on a register of 32 bits held as
\* the set of the positions of its 1 bits (bit 0 the least significant): the
\* reference C4 compares crc32 with.
PolyBits == {5, 8, 9, 15, 19, 20, 21, 23, 24, 26, 27, 29, 30, 31}

BitOf(n, i) == (n \div (2 ^ i)) % 2

SymDiff(a, b) == {i \in 0..31 : (i \in a) # (i \in b)}

\* k times: the register moves one bit to the right, and the polynomial is
\* added to it when the bit that fell out was 1.
RECURSIVE RefSteps(_, _)
RefSteps(reg, k) ==
    IF k = 0 THEN reg
    ELSE IF 0 \in reg
    THEN RefSteps(SymDiff({i \in 0..30 : i + 1 \in reg}, PolyBits), k - 1)
    ELSE RefSteps({i \in 0..30 : i + 1 \in reg}, k - 1)

RECURSIVE RefCrc(_, _, _)
RefCrc(reg, octets, i) ==
    IF i > Len(octets) THEN {j \in 0..31 : j \notin reg}
    ELSE RefCrc(RefSteps(SymDiff(reg, {j \in 0..7 : BitOf(octets[i], j) = 1}), 8),
                octets, i + 1)

RefCrc32(octets) == RefCrc({j \in 0..31 : TRUE}, octets, 1)

\* The 1 bits of a u32.
BitsOf(x) ==
    {j \in 0..31 : IF j < 16 THEN BitOf(x.lo, j) = 1 ELSE BitOf(x.hi, j - 16) = 1}

\* crc32(b"The ", b"quick brown fox jumps over the lazy dog"), test_crc32
TestCrc32 ==
    crc32(<<84, 104, 101, 32>>,
          <<113, 117, 105, 99, 107, 32, 98, 114, 111, 119, 110, 32, 102, 111,
            120, 32, 106, 117, 109, 112, 115, 32, 111, 118, 101, 114, 32, 116,
            104, 101, 32, 108, 97, 122, 121, 32, 100, 111, 103>>)

\* C4: the crc of every chunk, built by Chunk::new or returned by try_from, is
\* the bit-by-bit CRC-32 (polynomial 0xEDB88320, register 0xFFFFFFFF at the
\* start, complemented at the end) of its type bytes followed by its data;
\* and crc32 of "The " and "quick brown fox jumps over the lazy dog" is
\* 0x414fa339.
C4_CrcInvariant ==
    /\ \A c \in {chunk, res.chunk} \ {NoChunk} :
           BitsOf(c.crc) = RefCrc32(ChunkType_bytes(c.type) \o c.data)
    /\ TestCrc32 = W(16719, 41785)

\* C4's case: try_from has returned a chunk with a payload.
C4_Witness ==
    /\ pc = "decoded"
    /\ res.tag = "Ok"
    /\ res.chunk # NoChunk
    /\ Len(res.chunk.data) > 0

\* C1: the bytes of Chunk::new(type, payload), for every valid type code and
\* every payload, decode to a chunk with the same length, type, data and crc.
C1_RoundTrip ==
    (spc = "decoded" /\ schunk # NoSized)
    => (sres.tag = "Ok" /\ sres.chunk = schunk)

\* C7: a buffer that try_from accepts is what bytes() of the returned chunk
\* gives back, and its length is 12 plus the length it declares.
C7_SerializeInverse ==
    (spc = "decoded" /\ sres.tag = "Ok")
    => /\ Chunk_bytes_sized(sres.chunk) = svalue
       /\ svalue.n = WAdd(from_be_bytes(SubSeq(svalue.head, 1, 4)), OfNat(12))

\* C8: try_from of a buffer of at least 4 bytes that declares a length above
\* 2^31 - 1 fails with the invalid-length error, whatever its type bytes,
\* payload and CRC are.
C8_LengthBound ==
    (/\ spc = "decoded"
     /\ WLe(OfNat(4), svalue.n)
     /\ WLt(W(32767, 65535), from_be_bytes(SubSeq(svalue.head, 1, 4))))
    => (sres.tag = "Err" /\ sres.err = "Invalid chunk length")

\* C10: every chunk, built by Chunk::new or returned by try_from, has length
\* equal to the number of its data bytes and at most 2^31 - 1.
C10_LengthInvariant ==
    \A c \in {schunk, sres.chunk} \ {NoSized} :
        c.length = c.data_len /\ WLe(c.length, W(32767, 65535))

\* The chunks of a file that is a PNG.
ChunksOf(f) == Png_try_from(f, overflow_checks).v

\* The sequence q without its element i.
Without(q, i) == SubSeq(q, 1, i - 1) \o SubSeq(q, i + 1, Len(q))

\* Chunk i is the earliest chunk of q whose type code reads t.
EarliestOfType(q, t, i) ==
    /\ i \in 1..Len(q)
    /\ q[i].type = t
    /\ \A j \in 1..(i - 1) : q[j].type # t

\* C5: a chunk of type T appended (encode) and then remove of T: exactly one
\* chunk goes, the earliest of type T.  With no T before the append the list
\* is as it was; with one, the earliest of them goes, the appended chunk stays
\* last and the others keep their order.  remove of a type no chunk has fails
\* with NotFound and leaves the file as it was.
C5_AppendRemove ==
    LET Removed(t, pre, mid, now) ==
            /\ hist[2].ok /\ status.ok
            /\ Len(mid) = Len(pre) + 1
            /\ SubSeq(mid, 1, Len(pre)) = pre
            /\ mid[Len(mid)].type = t
            /\ \E i \in 1..Len(mid) : EarliestOfType(mid, t, i) /\ now = Without(mid, i)
            /\ (\A j \in 1..Len(pre) : pre[j].type # t) => now = pre
            /\ \A i \in 1..Len(pre) :
                   EarliestOfType(pre, t, i) => now = Append(Without(pre, i), mid[Len(mid)])
        Absent(t, png) ==
            (png.ok /\ \A j \in 1..Len(png.v) : png.v[j].type # t)
            => (~hist[2].ok /\ status = Err("NotFound") /\ file = hist[2].before)
    IN  /\ (/\ hist[1].op = "encode" /\ hist[1].ok
            /\ hist[2].op = "remove" /\ hist[2].type = hist[1].type)
           => Removed(hist[1].type, ChunksOf(hist[1].before),
                      ChunksOf(hist[2].before), ChunksOf(file))
        /\ hist[2].op = "remove"
           => Absent(hist[2].type, Png_try_from(hist[2].before, overflow_checks))

\* C5's case: T was in the file, a second T was appended, remove of T took the
\* first and left the second behind another chunk.
C5_Witness ==
    /\ hist[1].op = "encode" /\ hist[1].ok
    /\ hist[2].op = "remove" /\ hist[2].ok /\ hist[2].type = hist[1].type
    /\ \E i \in 1..Len(ChunksOf(hist[1].before)) :
           ChunksOf(hist[1].before)[i].type = hist[1].type
    /\ Len(ChunksOf(file)) = 2
    /\ ChunksOf(file)[1].type # hist[1].type
    /\ ChunksOf(file) # ChunksOf(hist[1].before)

\* The letters, as the claims name them.
UpperCase == 65..90

LowerCase == 97..122

\* C6 as claimed: each of is_critical, is_public, is_reserved_bit_valid and
\* is_safe_to_copy is true exactly when byte 0, 1, 2, 3 of the type code is an
\* uppercase ASCII letter.
C6_AllUppercase ==
    seen # NotSeen
    => /\ seen.critical = (ctype.v[1] \in UpperCase)
       /\ seen.public = (ctype.v[2] \in UpperCase)
       /\ seen.reserved_bit_valid = (ctype.v[3] \in UpperCase)
       /\ seen.safe_to_copy = (ctype.v[4] \in UpperCase)

\* C6, amended: is_critical, is_public and is_reserved_bit_valid are true
\* exactly when byte 0, 1, 2 is an uppercase ASCII letter; is_safe_to_copy is
\* true exactly when byte 3 is a lowercase ASCII letter.
C6_PropertyBits ==
    seen # NotSeen
    => /\ seen.critical = (ctype.v[1] \in UpperCase)
       /\ seen.public = (ctype.v[2] \in UpperCase)
       /\ seen.reserved_bit_valid = (ctype.v[3] \in UpperCase)
       /\ seen.safe_to_copy = (ctype.v[4] \in LowerCase)
       /\ seen.safe_to_copy = (ctype.v[4] \notin UpperCase)

\* C6's case: the methods have been called on a type code whose byte 3 is
\* lowercase, and is_safe_to_copy returned true.
C6_Witness ==
    /\ seen # NotSeen
    /\ ctype.v[4] \in LowerCase
    /\ seen.safe_to_copy
    /\ seen.critical
    /\ ~seen.public

\* C9: try_from of four bytes succeeds exactly when all four are ASCII
\* letters; from_str succeeds exactly when the string is four chars, each an
\* ASCII letter, and then returns what try_from returns on its bytes, with
\* bytes() and to_string() giving the input back; every other input yields an
\* error and no ChunkType.
C9_Construction ==
    /\ (input.kind = "bytes" /\ ctype # NotParsed)
       => /\ ctype.ok = (\A i \in 1..4 : input.v[i] \in UpperCase \cup LowerCase)
          /\ ctype.ok => ctype.v = input.v
    /\ (input.kind = "str" /\ ctype # NotParsed)
       => /\ ctype.ok = (/\ Len(input.v) = 4
                         /\ \A i \in 1..Len(input.v) : input.v[i] \in UpperCase \cup LowerCase)
          /\ ctype.ok => ctype = ChunkType_try_from(input.v)
          /\ (ctype.ok /\ seen # NotSeen)
             => (seen.bytes = input.v /\ seen.text = Ok(input.v))
    /\ ~ctype.ok => (ctype.v = <<>> /\ seen = NotSeen)

\* C9's case: from_str has accepted a string and its methods have been called.
C9_Witness ==
    /\ input.kind = "str"
    /\ ctype.ok
    /\ seen # NotSeen
    /\ seen.text = Ok(input.v)
====
